---- MODULE Spec2Model ----
(***************************************************************************)
(* A model of the nano-banana CLI (src/src/cli.ts): the .env loads,        *)
(* argument parsing, image generation with its reference images and cost   *)
(* log, and the transparent-mode loop that calls removeBackground (magick  *)
(* histogram -> ffmpeg colorkey+despill -> magick trim) for every          *)
(* generated file; runCommand, detectKeyColor, parseArgs and the despill   *)
(* formula are also taken on their own.                                    *)
(***************************************************************************)
EXTENDS Integers, Sequences, FiniteSets, TLC

VARIABLES
    argv,        \* process.argv.slice(2)
    tools,       \* per executable: "ok", or the errno spawn fails with
    pc,          \* position of the main promise chain
    options,     \* the Options parseArgs returned
    files,       \* savedFiles of generateImage
    disk,        \* absolute path -> content of the files on disk
    idx,         \* index of the file the transparent loop is at
    processed,   \* processedFiles of the transparent loop
    finalFiles,  \* finalFiles of the .then callback
    cur,         \* locals of the running removeBackground call
    calls,       \* the removeBackground calls made so far: input and how each ended
    out,         \* what was printed, in order
    exitCode,    \* -1 while running, else the process exit status
    det,         \* locals of a stand-alone detectKeyColor run
    env0,        \* process.env as the process was started with
    env,         \* process.env
    envFiles,    \* the three .env files, in the order they are loaded
    gen,         \* locals of the running generateImage call
    request,     \* what generateContent was called with
    refsOnDisk,  \* the reference image paths that exist and can be read
    costLog,     \* ~/.nano-banana/costs.json and whether it can be written
    results,     \* how each removeBackground call ended, in call order
    rc,          \* a stand-alone runCommand call: its promise and child process
    px,          \* a stand-alone pixel the despill formula is applied to
    lc           \* two processes in logCost on the same log: their locals

envVars == <<env0, env, envFiles>>
genVars == <<gen, request, refsOnDisk, costLog>>

vars == <<argv, tools, pc, options, files, disk, idx, processed, finalFiles, cur,
          calls, out, exitCode, det, envVars, genVars, results, rc, px, lc>>

-----------------------------------------------------------------------------
(* Bounds of the model *)

MaxFiles == 2
MaxLines == 2
MaxCount == 3
MaxOptArgs == 4
MaxChannel == 4
MaxParts == 3

-----------------------------------------------------------------------------
(* Constants of the program *)

Undefined == "<undefined>"
Cwd == "/work"

DEFAULT_MODEL == "gemini-3.1-flash-image-preview"
PRO_MODEL == "gemini-3-pro-image-preview"
VALID_SIZES == {"512", "1K", "2K", "4K"}
VALID_ASPECTS == {"1:1", "16:9", "9:16", "4:3", "3:4", "3:2", "2:3",
                  "4:5", "5:4", "21:9", "1:4", "1:8", "4:1", "8:1"}

\* input.toLowerCase() on the model names the model draws
ToLowerCase(s) ==
    CASE s = "PRO" -> "pro"
      [] s = "Pro" -> "pro"
      [] s = "NB-PRO" -> "nb-pro"
      [] s = "FLASH" -> "flash"
      [] OTHER -> s

MODEL_ALIASES(s) ==
    CASE s \in {"flash", "nb2"} -> DEFAULT_MODEL
      [] s \in {"pro", "nb-pro"} -> PRO_MODEL
      [] OTHER -> Undefined

\* a lookup that does not fold the case of the name
resolveModelExact(input) ==
    IF MODEL_ALIASES(input) # Undefined THEN MODEL_ALIASES(input) ELSE input

\* MODEL_ALIASES[input.toLowerCase()] || input
resolveModel(input) ==
    IF MODEL_ALIASES(ToLowerCase(input)) # Undefined
    THEN MODEL_ALIASES(ToLowerCase(input))
    ELSE input

-----------------------------------------------------------------------------
(* parseArgs *)

\* arg.startsWith("-") on the tokens the model draws
StartsWithDash(arg) ==
    arg \in {"-o", "--output", "-s", "--size", "-a", "--aspect", "-m", "--model",
             "-d", "--dir", "-r", "--ref", "-t", "--transparent", "--api-key",
             "--chroma", "--fuzz", "--help", "-h", "--costs"}

\* args[i] of a JavaScript array: undefined past the end
ArgAt(args, i) == IF i <= Len(args) THEN args[i] ELSE Undefined

DefaultOptions ==
    [prompt |-> "", output |-> "nano-gen", size |-> "1K", outputDir |-> Cwd,
     referenceImages |-> <<>>, transparent |-> FALSE, apiKey |-> Undefined,
     model |-> DEFAULT_MODEL, aspectRatio |-> Undefined]

RECURSIVE ParseLoop(_, _, _)
ParseLoop(args, i, o) ==
    IF i > Len(args) THEN [kind |-> "options", opts |-> o]
    ELSE LET arg == args[i]
             val == ArgAt(args, i + 1)
         IN  IF arg \in {"-o", "--output"}
                 THEN ParseLoop(args, i + 2, [o EXCEPT !.output = val])
             ELSE IF arg \in {"-s", "--size"}
                 THEN IF val \in VALID_SIZES
                      THEN ParseLoop(args, i + 2, [o EXCEPT !.size = val])
                      ELSE [kind |-> "exit", code |-> 1]
             ELSE IF arg \in {"-a", "--aspect"}
                 THEN IF val \in VALID_ASPECTS
                      THEN ParseLoop(args, i + 2, [o EXCEPT !.aspectRatio = val])
                      ELSE [kind |-> "exit", code |-> 1]
             ELSE IF arg \in {"-m", "--model"}
                 THEN IF val = Undefined
                      THEN [kind |-> "exit", code |-> 1]   \* undefined.toLowerCase() throws
                      ELSE ParseLoop(args, i + 2, [o EXCEPT !.model = resolveModel(val)])
             ELSE IF arg \in {"-d", "--dir"}
                 THEN ParseLoop(args, i + 2, [o EXCEPT !.outputDir = val])
             ELSE IF arg \in {"-r", "--ref"}
                 THEN ParseLoop(args, i + 2,
                                [o EXCEPT !.referenceImages = Append(@, val)])
             ELSE IF arg \in {"-t", "--transparent"}
                 THEN ParseLoop(args, i + 1, [o EXCEPT !.transparent = TRUE])
             ELSE IF arg = "--api-key"
                 THEN ParseLoop(args, i + 2, [o EXCEPT !.apiKey = val])
             ELSE IF ~StartsWithDash(arg)
                 THEN ParseLoop(args, i + 1, [o EXCEPT !.prompt = arg])
             ELSE ParseLoop(args, i + 1, o)

parseArgs(args) ==
    IF Len(args) = 0 \/ args[1] \in {"--help", "-h"} THEN [kind |-> "exit", code |-> 0]
    ELSE IF args[1] = "--costs" THEN [kind |-> "costs"]
    ELSE LET r == ParseLoop(args, 1, DefaultOptions)
         IN  IF r.kind # "options" THEN r
             ELSE IF r.opts.prompt = "" THEN [kind |-> "exit", code |-> 1]
             ELSE IF r.opts.size = "512" /\ r.opts.model = PRO_MODEL
                  THEN [kind |-> "options", opts |-> [r.opts EXCEPT !.size = "1K"]]
                  ELSE r

-----------------------------------------------------------------------------
(* process.env and the .env files.  A file is [exists, lines]; a line is   *)
(* what trimmed.split("=") makes of it: the key before the first "=" and   *)
(* the raw text after it, or a blank or "#" line                           *)

GEMINI_API_KEY == "GEMINI_API_KEY"
OTHER_KEY == "OTHER_KEY"
EnvKeys == {GEMINI_API_KEY, OTHER_KEY}

\* a JavaScript string that is neither undefined nor empty
Truthy(v) == v \notin {Undefined, ""}

MissingFile == [exists |-> FALSE, lines |-> <<>>]
File(lines) == [exists |-> TRUE, lines |-> lines]
Assign(key, raw) == [skipped |-> FALSE, key |-> key, raw |-> raw]
CommentLine == [skipped |-> TRUE, key |-> "", raw |-> ""]

\* .replace(/^["']|["']$/g, "") on the raw values the model draws
StripQuotes(raw) ==
    CASE raw = "'B'" -> "B"
      [] raw = "''" -> ""
      [] OTHER -> raw

\* a loader whose later assignments replace earlier ones
LoadLineOverwrites(e, line) ==
    IF ~line.skipped /\ line.key # "" /\ StripQuotes(line.raw) # ""
    THEN [e EXCEPT ![line.key] = StripQuotes(line.raw)]
    ELSE e

\* if (key && value && !process.env[key]) process.env[key] = value
LoadLine(e, line) ==
    IF ~line.skipped /\ line.key # "" /\ StripQuotes(line.raw) # "" /\ ~Truthy(e[line.key])
    THEN [e EXCEPT ![line.key] = StripQuotes(line.raw)]
    ELSE e

RECURSIVE LoadLines(_, _, _)
LoadLines(e, lines, i) ==
    IF i > Len(lines) THEN e ELSE LoadLines(LoadLine(e, lines[i]), lines, i + 1)

\* loadEnvFile(path): if (!existsSync(path)) return; ...
loadEnvFile(e, file) == IF ~file.exists THEN e ELSE LoadLines(e, file.lines, 1)

\* the positions of the main module while it loads, in order, <cwd>/.env,
\* <repo root>/.env and ~/.nano-banana/.env
LoadPcs == <<"load_cwd", "load_repo", "load_home">>

-----------------------------------------------------------------------------
(* Paths.  A path is [dir, name, ext]: name is the base name without its   *)
(* extension, kept as the sequence of the pieces it was built from.        *)

Path(d, n, e) == [dir |-> d, name |-> n, ext |-> e]

\* path.join(dir, file): join(".", f) is f
Join(d, n, e) == Path(IF d = "." THEN "" ELSE d, n, e)

\* the file a path names: relative paths resolve against the working directory
AbsDir(d) ==
    CASE d = "" -> Cwd
      [] d = "rel" -> "/work/rel"
      [] OTHER -> d

Abs(p) == Path(AbsDir(p.dir), p.name, p.ext)

\* inputPath.substring(0, inputPath.lastIndexOf("/"))
RbDir(p) == IF p.dir \in {"", "/"} THEN "" ELSE p.dir

RbOutputPath(p) == Join(RbDir(p), p.name, "png")

RbTempKeyed(p) == Join(RbDir(p), Append(p.name, "_keyed"), "png")

-----------------------------------------------------------------------------
(* The disk: a function from the absolute paths that exist to contents.    *)
(* A content is [stage, ok]: stage "raw" (as generated), "keyed" (after    *)
(* colorkey+despill) or "trimmed" (after trim); ok says it decodes.        *)

WriteFile(d, p, c) == [q \in DOMAIN d \cup {Abs(p)} |-> IF q = Abs(p) THEN c ELSE d[q]]

Unlink(d, p) == [q \in DOMAIN d \ {Abs(p)} |-> d[q]]

Exists(d, p) == Abs(p) \in DOMAIN d

Readable(d, p) == Exists(d, p) /\ d[Abs(p)].ok

-----------------------------------------------------------------------------
(* runCommand.  A message is a sequence of pieces; includes() looks for a  *)
(* contiguous run of pieces.                                               *)

Includes(msg, needle) ==
    \E i \in 1..(Len(msg) - Len(needle) + 1) :
        SubSeq(msg, i, i + Len(needle) - 1) = needle

SpawnError(cmd, errno) ==
    [msg |-> <<"Failed to run", cmd, ":", "spawn", cmd, errno, ". Is it installed?">>]

ExitError(cmd) == [msg |-> <<cmd, "failed (exit", "1", "):">>]

\* how a child process can end: the executable cannot be started, or it
\* runs and exits 0 (only on usable input) or non-zero
ProcEnds(toolState, inputOk) ==
    IF toolState # "ok" THEN {"spawn"}
    ELSE IF inputOk THEN {"ok", "exit"}
    ELSE {"exit"}

runCommand(cmd, toolState, end, stdout) ==
    IF end = "spawn" THEN [ok |-> FALSE, err |-> SpawnError(cmd, toolState)]
    ELSE IF end = "ok" THEN [ok |-> TRUE, stdout |-> stdout]
    ELSE [ok |-> FALSE, err |-> ExitError(cmd)]

runMagick(toolState, end, stdout) == runCommand("magick", toolState, end, stdout)

-----------------------------------------------------------------------------
(* detectKeyColor.  A histogram line is [counted, count, hex]: counted     *)
(* says the line starts with "<digits>:", hex is the run of hex digits     *)
(* after the first "#" (empty when there is none).                         *)

DefaultKey == <<"0", "0", "F", "F", "0", "0">>
NearGreen == <<"0", "5", "F", "9", "0", "4">>
Blue == <<"0", "0", "0", "0", "F", "F">>
RedOpaque == <<"F", "F", "0", "0", "0", "0", "F", "F">>
ShortHex == <<"0", "F", "0">>

HexDigits == {"0", "1", "2", "3", "4", "5", "6", "7", "8", "9",
              "A", "B", "C", "D", "E", "F"}

\* line.match(/^\s*(\d+):/)
CountMatch(line) == line.counted

\* line.match(/#([0-9A-Fa-f]{6})/): the first six hex digits after "#"
HexMatch(line) == Len(line.hex) >= 6

HexGroup(line) == SubSeq(line.hex, 1, 6)

\* a scan that lets a later line of equal count replace the best one
IsBetterOrEqual(count, bestCount) == count >= bestCount

IsBetter(count, bestCount) == count > bestCount

\* one iteration of the loop over the lines
ScanLine(line, best) ==
    IF CountMatch(line) /\ HexMatch(line) /\ IsBetter(line.count, best.count)
    THEN [count |-> line.count, color |-> HexGroup(line)]
    ELSE best

RECURSIVE ScanFrom(_, _, _)
ScanFrom(raw, i, best) ==
    IF i > Len(raw) THEN best ELSE ScanFrom(raw, i + 1, ScanLine(raw[i], best))

ScanStart == [count |-> 0, color |-> DefaultKey]

\* the value detectKeyColor returns once the histogram command printed raw
KeyOfHistogram(raw) == ScanFrom(raw, 1, ScanStart).color

-----------------------------------------------------------------------------
(* logCost *)

\* the cost log: whether ~/.nano-banana exists, whether it can be written
\* to, and what costs.json holds: nothing ("absent"), a JSON array
\* ("array", its entries), text that does not parse ("garbage"), or valid
\* JSON that is no array ("object")
CostLog(dirExists, writable, kind, entries) ==
    [dirExists |-> dirExists, writable |-> writable, kind |-> kind, entries |-> entries]

\* const entry: CostEntry = { ..., model, size, output_file: savedFiles[0] || "" }
CostEntry(o, saved) ==
    [model |-> o.model, size |-> o.size,
     output_file |-> IF saved = <<>> THEN Path("", <<>>, "") ELSE saved[1]]

\* a log writer that keeps only the new entry
PushEntryReplacing(entries, entry) == <<entry>>

\* entries.push(entry)
PushEntry(entries, entry) == Append(entries, entry)

\* logCost(entry): [ok, log], ok FALSE when the returned promise rejects.
\* mkdir and writeFile reject when the place cannot be written to; a log
\* that does not parse is caught and restarted empty; push throws on a
\* parsed value that is no array
logCost(log, entry) ==
    IF ~log.dirExists /\ ~log.writable THEN [ok |-> FALSE, log |-> log]
    ELSE LET made == [log EXCEPT !.dirExists = TRUE]
             entries == IF log.kind = "array" THEN log.entries ELSE <<>>
         IN  IF log.kind = "object" THEN [ok |-> FALSE, log |-> made]
             ELSE IF ~log.writable THEN [ok |-> FALSE, log |-> made]
             ELSE [ok |-> TRUE,
                   log |-> [made EXCEPT !.kind = "array",
                                        !.entries = PushEntry(entries, entry)]]

-----------------------------------------------------------------------------
(* What the model draws its inputs from *)

ArgLists ==
    { <<"robot">>,
      <<"robot", "-t">>,
      <<"robot", "-t", "--chroma", "#FF00FF", "--fuzz", "20">>,
      <<"-t", "-d", "/", "robot">>,
      <<"robot", "-t", "-o", "logo", "-d", ".">>,
      <<"robot", "-t", "-d", "rel">>,
      <<"robot", "-s", "512", "-m", "PRO">>,
      <<"robot", "-s", "8K">>,
      <<"robot", "-r", "a.png", "-r", "b.jpg">>,
      <<"-t">>,
      <<"--help">>,
      <<"--costs">> }

ToolStates == {"ok", "ENOENT", "EACCES"}

Exts == {"png", "jpeg"}

\* the image parts of a response: the extension of the mime type and
\* whether the data decodes as an image
ImagePart == [image : {TRUE}, ext : Exts, ok : BOOLEAN]

\* a part without inlineData
TextPart == [image |-> FALSE, ext |-> "", ok |-> FALSE]

Responses == UNION {[1..n -> ImagePart] : n \in 0..MaxFiles}

HistLine(n, hex) == [counted |-> n > 0, count |-> n, hex |-> hex]

\* histogram outputs of the main run: nothing usable; one near-green line;
\* a blue majority; a tie between an RGBA red line and a blue line
HistSamples ==
    { <<>>,
      <<HistLine(3, NearGreen)>>,
      <<HistLine(1, NearGreen), HistLine(3, Blue)>>,
      <<HistLine(2, RedOpaque), HistLine(2, Blue)>> }

IndexSuffix(k) == <<"_1", "_2", "_3", "_4">>[k]

\* a loop that names every file after the output alone
FileNameNoIndex(output, k) == <<output>>

\* fileName of the k-th image part (k counted from 0)
FileName(output, k) == IF k = 0 THEN <<output>> ELSE <<output, IndexSuffix(k)>>

NoCall == [active |-> FALSE]

\* a file of the user's that is in the working directory before the run
UserFile == Path(Cwd, <<"nano-gen", "_keyed">>, "png")
UserContent == [stage |-> "user", ok |-> TRUE]

\* the locals of generateImage before the call
GenIdle ==
    [apiKey |-> Undefined, parts |-> <<>>, ri |-> 0, response |-> <<>>, usage |-> FALSE,
     saved |-> <<>>, logged |-> "none",
     costBefore |-> CostLog(TRUE, TRUE, "absent", <<>>)]

NoRequest == [sent |-> FALSE, apiKey |-> Undefined, model |-> "", size |-> "", parts |-> <<>>]

\* the reference image paths the arguments name
RefPaths == {"a.png", "b.jpg"}

\* the environment of the main run: the key exported, no .env file
EnvWithKey == [k \in EnvKeys |-> IF k = GEMINI_API_KEY THEN "E" ELSE Undefined]
NoEnvFiles == [k \in DOMAIN LoadPcs |-> MissingFile]

DetIdle == [pc |-> "idle"]
RcIdle == [pc |-> "idle"]
PxIdle == [pc |-> "idle"]
LcIdle == [pc |-> "idle"]

Emit(log, kind, what) == Append(log, [kind |-> kind, what |-> what])

-----------------------------------------------------------------------------
(* Init and the actions of the main run *)

Init ==
    /\ argv \in ArgLists
    /\ tools \in [{"magick", "ffmpeg"} -> ToolStates]
    /\ pc = LoadPcs[1]
    /\ options = DefaultOptions
    /\ files = <<>>
    /\ disk \in {<<>>, WriteFile(<<>>, UserFile, UserContent)}
    /\ idx = 0
    /\ processed = <<>>
    /\ finalFiles = <<>>
    /\ cur = NoCall
    /\ calls = <<>>
    /\ out = <<>>
    /\ exitCode = -1
    /\ det = DetIdle
    /\ env0 = EnvWithKey
    /\ env = env0
    /\ envFiles = NoEnvFiles
    /\ gen = GenIdle
    /\ request = NoRequest
    /\ refsOnDisk = RefPaths
    /\ costLog = CostLog(TRUE, TRUE, "array", <<>>)
    /\ results = <<>>
    /\ rc = RcIdle
    /\ px = PxIdle
    /\ lc = LcIdle

\* loadEnvFile(join(process.cwd(), ".env")); loadEnvFile(join(__dirname, "..", ".env"));
\* loadEnvFile(join(homedir(), ".nano-banana", ".env"))
LoadEnv(k) ==
    /\ pc = LoadPcs[k]
    /\ env' = loadEnvFile(env, envFiles[k])
    /\ pc' = IF k = Len(LoadPcs) THEN "start" ELSE LoadPcs[k + 1]
    /\ UNCHANGED <<argv, tools, options, files, disk, idx, processed, finalFiles, cur, calls,
                   out, exitCode, det, env0, envFiles, genVars, results, rc, px, lc>>

\* const parsed = parseArgs(); the costs branch prints the summary and exits 0
ParseArgs ==
    /\ pc = "start"
    /\ LET r == parseArgs(argv)
       IN  IF r.kind = "options"
           THEN /\ options' = r.opts
                /\ pc' = "generate"
                /\ exitCode' = exitCode
           ELSE /\ options' = options
                /\ pc' = "done"
                /\ exitCode' = IF r.kind = "costs" THEN 0 ELSE r.code
    /\ UNCHANGED <<argv, finalFiles, tools, files, disk, idx, processed, cur, calls, out, det,
                   envVars, genVars, results, rc, px, lc>>

\* the loop over the response parts: an image part is written to
\* join(outputDir, fileName) and pushed, fileIndex going up by one; a text
\* part is only printed
RECURSIVE SaveLoop(_, _, _, _, _, _)
SaveLoop(d, o, parts, k, fileIndex, saved) ==
    IF k > Len(parts) THEN [disk |-> d, saved |-> saved]
    ELSE IF parts[k].image
    THEN LET outputPath == Join(o.outputDir, FileName(o.output, fileIndex), parts[k].ext)
         IN  SaveLoop(WriteFile(d, outputPath, [stage |-> "raw", ok |-> parts[k].ok]),
                      o, parts, k + 1, fileIndex + 1, Append(saved, outputPath))
    ELSE SaveLoop(d, o, parts, k + 1, fileIndex, saved)

SaveAll(d, o, parts, k) == SaveLoop(d, o, parts, k, 0, <<>>).disk

SavedFiles(o, parts) == SaveLoop(<<>>, o, parts, 1, 0, <<>>).saved

\* generateImage prefers the environment to the flag
ApiKeyEnvFirst(o, e) ==
    IF Truthy(e[GEMINI_API_KEY]) THEN e[GEMINI_API_KEY] ELSE o.apiKey

\* const apiKey = options.apiKey || process.env.GEMINI_API_KEY
ApiKeyOf(o, e) == IF Truthy(o.apiKey) THEN o.apiKey ELSE e[GEMINI_API_KEY]

\* generateImage(options), first step: if (!apiKey) { ...; process.exit(1) };
\* gen.costBefore remembers the cost log the call started with
GenStart ==
    /\ pc = "generate"
    /\ LET apiKey == ApiKeyOf(options, env)
       IN  IF ~Truthy(apiKey)
           THEN /\ out' = Emit(out, "key required", <<>>)
                /\ exitCode' = 1
                /\ pc' = "done"
                /\ gen' = gen
           ELSE /\ gen' = [GenIdle EXCEPT !.apiKey = apiKey, !.ri = 1,
                                          !.costBefore = costLog]
                /\ pc' = "gen_refs"
                /\ UNCHANGED <<out, exitCode>>
    /\ UNCHANGED <<argv, tools, options, files, disk, idx, processed, finalFiles, cur, calls,
                   det, envVars, request, refsOnDisk, costLog, results, rc, px, lc>>

ImageOf(ref) == [kind |-> "image", ref |-> ref, prompt |-> "", greenScreen |-> FALSE]

\* { text: finalPrompt }: the prompt, wrapped in the green-screen request
\* in transparent mode
TextOf(o) == [kind |-> "text", ref |-> "", prompt |-> o.prompt, greenScreen |-> o.transparent]

\* for (const imgPath of options.referenceImages) { try { ... parts.push(...) }
\* catch (err) { console.error(`Failed to load: ...`); throw err } }
GenLoadRef ==
    /\ pc = "gen_refs"
    /\ gen.ri <= Len(options.referenceImages)
    /\ LET imgPath == options.referenceImages[gen.ri]
       IN  IF imgPath \in refsOnDisk
           THEN /\ gen' = [gen EXCEPT !.parts = Append(@, ImageOf(imgPath)), !.ri = @ + 1]
                /\ UNCHANGED <<pc, out>>
           ELSE /\ out' = Emit(out, "failed to load", imgPath)
                /\ pc' = "rejected"
                /\ gen' = gen
    /\ UNCHANGED <<argv, tools, options, files, disk, idx, processed, finalFiles, cur, calls,
                   exitCode, det, envVars, request, refsOnDisk, costLog, results, rc, px, lc>>

\* a request that puts the text part first
RequestPartsTextFirst(images, text) == <<text>> \o images

\* parts.push({ text: finalPrompt })
RequestParts(images, text) == Append(images, text)

\* const response = await ai.models.generateContent({ model, config, contents }):
\* the call rejects, or answers with image parts, with or without usageMetadata
GenCall ==
    /\ pc = "gen_refs"
    /\ gen.ri > Len(options.referenceImages)
    /\ request' = [sent |-> TRUE, apiKey |-> gen.apiKey, model |-> options.model,
                   size |-> options.size, parts |-> RequestParts(gen.parts, TextOf(options))]
    /\ \/ /\ pc' = "rejected"
          /\ gen' = gen
       \/ \E parts \in Responses, usage \in BOOLEAN :
             /\ gen' = [gen EXCEPT !.response = parts, !.usage = usage]
             /\ pc' = "gen_save"
    /\ UNCHANGED <<argv, tools, options, files, disk, idx, processed, finalFiles, cur, calls,
                   out, exitCode, det, envVars, refsOnDisk, costLog, results, rc, px, lc>>

\* if (!existsSync(options.outputDir)) await mkdir(...); then one writeFile
\* and savedFiles.push per image part; mkdir rejects without a directory
GenSave ==
    /\ pc = "gen_save"
    /\ IF options.outputDir = Undefined
       THEN /\ pc' = "rejected"
            /\ UNCHANGED <<gen, disk>>
       ELSE /\ gen' = [gen EXCEPT !.saved = SavedFiles(options, gen.response)]
            /\ disk' = SaveAll(disk, options, gen.response, 1)
            /\ pc' = "gen_cost"
    /\ UNCHANGED <<argv, tools, options, files, idx, processed, finalFiles, cur, calls,
                   out, exitCode, det, envVars, request, refsOnDisk, costLog, results, rc, px, lc>>

\* a generateImage that lets a rejection of logCost through
AfterLogCostFatal(ok) == IF ok THEN "then" ELSE "rejected"

\* await logCost(entry).catch(() => {}); return savedFiles
AfterLogCost(ok) == "then"

\* const usage = response.usageMetadata; if (usage) { ... await logCost(entry)... };
\* return savedFiles
GenLogCost ==
    /\ pc = "gen_cost"
    /\ IF gen.usage
       THEN LET r == logCost(costLog, CostEntry(options, gen.saved))
            IN  /\ costLog' = r.log
                /\ gen' = [gen EXCEPT !.logged = IF r.ok THEN "logged" ELSE "failed"]
                /\ out' = Emit(out, "cost", <<>>)
                /\ pc' = AfterLogCost(r.ok)
                /\ files' = IF AfterLogCost(r.ok) = "then" THEN gen.saved ELSE files
       ELSE /\ gen' = [gen EXCEPT !.logged = "skipped"]
            /\ pc' = "then"
            /\ files' = gen.saved
            /\ UNCHANGED <<costLog, out>>
    /\ UNCHANGED <<argv, tools, options, disk, idx, processed, finalFiles, cur, calls,
                   exitCode, det, envVars, request, refsOnDisk, results, rc, px, lc>>

\* .catch((err) => { console.error(...); process.exit(1) })
ChainCatch ==
    /\ pc = "rejected"
    /\ out' = Emit(out, "error", <<>>)
    /\ exitCode' = 1
    /\ pc' = "done"
    /\ UNCHANGED <<argv, finalFiles, tools, options, files, disk, idx, processed, cur, calls, det,
                   envVars, genVars, results, rc, px, lc>>

\* .then(async (files) => ...) up to the transparent loop
ThenStart ==
    /\ pc = "then"
    /\ IF Len(files) = 0
       THEN /\ out' = Emit(out, "no images", <<>>)
            /\ pc' = "done"
            /\ exitCode' = 0
            /\ UNCHANGED <<idx, processed, finalFiles>>
       ELSE IF options.transparent
       THEN /\ pc' = "loop"
            /\ idx' = 1
            /\ processed' = <<>>
            /\ UNCHANGED <<finalFiles, out, exitCode>>
       ELSE /\ pc' = "report"
            /\ finalFiles' = files
            /\ UNCHANGED <<idx, processed, out, exitCode>>
    /\ UNCHANGED <<argv, tools, options, files, disk, cur, calls, det,
                   envVars, genVars, results, rc, px, lc>>

-----------------------------------------------------------------------------
(* removeBackground, one action per awaited step *)

NoPath == Path("", <<>>, "")
NoKey == <<>>
NoError == [msg |-> <<>>]
NoFail == [step |-> "", cmd |-> "", end |-> ""]

FFMPEG_REQUIRED ==
    [msg |-> <<"FFmpeg is required for transparent mode. Install: brew install ffmpeg">>]

\* runMagick([inputPath, "-crop", "4x4+0+0", "+repage", "-format", "%c", "histogram:info:-"])
DetectArgs(inputPath) ==
    [cmd |-> "magick", input |-> inputPath, output |-> NoPath, key |-> NoKey, despill |-> ""]

\* the channel of `despill=` in the filter string
DespillChannel(keyColor) == "green"

\* a colorkey step that keys the default color whatever was detected
FfmpegArgsDefaultKey(inputPath, keyColor, tempKeyed) ==
    [cmd |-> "ffmpeg", input |-> inputPath, output |-> tempKeyed, key |-> DefaultKey,
     despill |-> "green"]

\* runCommand("ffmpeg", ["-y", "-i", inputPath, "-vf",
\*            `colorkey=0x${keyColor}:0.25:0.08,despill=green`, tempKeyed])
FfmpegArgs(inputPath, keyColor, tempKeyed) ==
    [cmd |-> "ffmpeg", input |-> inputPath, output |-> tempKeyed, key |-> keyColor,
     despill |-> DespillChannel(keyColor)]

\* runMagick([tempKeyed, "-trim", "+repage", outputPath])
TrimArgs(tempKeyed, outputPath) ==
    [cmd |-> "magick", input |-> tempKeyed, output |-> outputPath, key |-> NoKey,
     despill |-> ""]

\* one entry of the call's command log
Ran(step, args, end) == [step |-> step, args |-> args, end |-> end]

\* a cleanup that leaves the temporary file in place
CleanupSkipped(d, tempKeyed) == d

\* const cleanup = async () => { await unlink(tempKeyed).catch(() => {}) }
Cleanup(d, tempKeyed) == Unlink(d, tempKeyed)

\* msg.includes("Failed to run ffmpeg") || msg.includes("ENOENT")
ReportsFfmpegMissing(msg) ==
    Includes(msg, <<"Failed to run", "ffmpeg">>) \/ Includes(msg, <<"ENOENT">>)

\* the transparent loop: for (const file of files) { try { await removeBackground(file)
LoopNext ==
    /\ pc = "loop"
    /\ IF idx > Len(files)
       THEN /\ pc' = "report"
            /\ finalFiles' = processed
            /\ UNCHANGED <<cur, calls>>
       ELSE /\ pc' = "rb_detect"
            /\ finalFiles' = finalFiles
            /\ cur' = [active |-> TRUE, input |-> files[idx],
                       outputPath |-> RbOutputPath(files[idx]),
                       tempKeyed |-> RbTempKeyed(files[idx]),
                       key |-> NoKey, cmds |-> <<>>, fail |-> NoFail,
                       err |-> NoError, thrown |-> NoError, ret |-> NoPath,
                       before |-> disk]
            /\ calls' = Append(calls, files[idx])
    /\ UNCHANGED <<argv, tools, options, files, disk, idx, processed, out, exitCode, det,
                   envVars, genVars, results, rc, px, lc>>

\* Step 1: const keyColor = await detectKeyColor(inputPath)
RbDetect ==
    /\ pc = "rb_detect"
    /\ LET args == DetectArgs(cur.input)
       IN  \E end \in ProcEnds(tools[args.cmd], Readable(disk, args.input)) :
           \E raw \in IF end = "ok" THEN HistSamples ELSE {<<>>} :
              LET r == runMagick(tools[args.cmd], end, raw)
              IN  IF r.ok
                  THEN /\ cur' = [cur EXCEPT !.key = KeyOfHistogram(r.stdout),
                                             !.cmds = Append(@, Ran("detect", args, end))]
                       /\ pc' = "rb_ffmpeg"
                  ELSE /\ cur' = [cur EXCEPT !.err = r.err,
                                             !.fail = [step |-> "detect", cmd |-> args.cmd,
                                                       end |-> end],
                                             !.cmds = Append(@, Ran("detect", args, end))]
                       /\ pc' = "rb_catch"
    /\ UNCHANGED <<argv, finalFiles, tools, options, files, disk, idx, processed, calls, out,
                   exitCode, det,
                   envVars, genVars, results, rc, px, lc>>

\* Step 2: await runCommand("ffmpeg", [...]); a run that exits non-zero may
\* or may not have left an (unusable) output file behind
RbFfmpeg ==
    /\ pc = "rb_ffmpeg"
    /\ LET args == FfmpegArgs(cur.input, cur.key, cur.tempKeyed)
       IN  \E end \in ProcEnds(tools[args.cmd], Readable(disk, args.input)) :
              LET r == runCommand(args.cmd, tools[args.cmd], end, <<>>)
              IN  IF r.ok
                  THEN /\ disk' = WriteFile(disk, args.output, [stage |-> "keyed", ok |-> TRUE])
                       /\ cur' = [cur EXCEPT !.cmds = Append(@, Ran("ffmpeg", args, end))]
                       /\ pc' = "rb_trim"
                  ELSE /\ \/ disk' = disk
                          \/ /\ end = "exit"
                             /\ disk' = WriteFile(disk, args.output,
                                                  [stage |-> "keyed", ok |-> FALSE])
                       /\ cur' = [cur EXCEPT !.err = r.err,
                                             !.fail = [step |-> "ffmpeg", cmd |-> args.cmd,
                                                       end |-> end],
                                             !.cmds = Append(@, Ran("ffmpeg", args, end))]
                       /\ pc' = "rb_catch"
    /\ UNCHANGED <<argv, finalFiles, tools, options, files, idx, processed, calls, out, exitCode, det,
                   envVars, genVars, results, rc, px, lc>>

\* Step 3: await runMagick([tempKeyed, "-trim", "+repage", outputPath]); a
\* run that exits non-zero may or may not have left an (unusable) output
\* file behind
RbTrim ==
    /\ pc = "rb_trim"
    /\ LET args == TrimArgs(cur.tempKeyed, cur.outputPath)
       IN  \E end \in ProcEnds(tools[args.cmd], Readable(disk, args.input)) :
              LET r == runMagick(tools[args.cmd], end, <<>>)
              IN  IF r.ok
                  THEN /\ disk' = WriteFile(disk, args.output,
                                            [stage |-> "trimmed", ok |-> TRUE])
                       /\ cur' = [cur EXCEPT !.cmds = Append(@, Ran("trim", args, end))]
                       /\ pc' = "rb_finish"
                  ELSE /\ \/ disk' = disk
                          \/ /\ end = "exit"
                             /\ disk' = WriteFile(disk, args.output,
                                                  [stage |-> "trimmed", ok |-> FALSE])
                       /\ cur' = [cur EXCEPT !.err = r.err,
                                             !.fail = [step |-> "trim", cmd |-> args.cmd,
                                                       end |-> end],
                                             !.cmds = Append(@, Ran("trim", args, end))]
                       /\ pc' = "rb_catch"
    /\ UNCHANGED <<argv, finalFiles, tools, options, files, idx, processed, calls, out, exitCode, det,
                   envVars, genVars, results, rc, px, lc>>

\* await cleanup(); return outputPath
RbFinish ==
    /\ pc = "rb_finish"
    /\ disk' = Cleanup(disk, cur.tempKeyed)
    /\ cur' = [cur EXCEPT !.ret = cur.outputPath]
    /\ results' = Append(results, [ok |-> TRUE, path |-> cur.outputPath])
    /\ pc' = "rb_returned"
    /\ UNCHANGED <<argv, finalFiles, tools, options, files, idx, processed, calls, out, exitCode, det,
                   envVars, genVars, rc, px, lc>>

\* catch (err) { await cleanup(); ... throw }
RbCatch ==
    /\ pc = "rb_catch"
    /\ disk' = Cleanup(disk, cur.tempKeyed)
    /\ IF ReportsFfmpegMissing(cur.err.msg)
       THEN /\ out' = Emit(out, "ffmpeg not found", <<>>)
            /\ cur' = [cur EXCEPT !.thrown = FFMPEG_REQUIRED]
       ELSE /\ out' = out
            /\ cur' = [cur EXCEPT !.thrown = cur.err]
    /\ results' = Append(results, [ok |-> FALSE, path |-> NoPath])
    /\ pc' = "rb_thrown"
    /\ UNCHANGED <<argv, finalFiles, tools, options, files, idx, processed, calls, exitCode, det,
                   envVars, genVars, rc, px, lc>>

\* processedFiles.push(outputPath); console.log(`Transparent: ${outputPath}`)
LoopPush ==
    /\ pc = "rb_returned"
    /\ processed' = Append(processed, cur.ret)
    /\ out' = Emit(out, "transparent", cur.ret)
    /\ idx' = idx + 1
    /\ pc' = "loop"
    /\ UNCHANGED <<argv, finalFiles, tools, options, files, disk, cur, calls, exitCode, det,
                   envVars, genVars, results, rc, px, lc>>

\* a loop that pushes the original file without saying so
FailureNoticeSilent(log, file) == log

\* console.error(`Failed to process: ${file}`)
FailureNotice(log, file) == Emit(log, "failed to process", file)

\* a loop whose catch lets the error go on to the chain's catch
LoopCatchRethrows ==
    /\ pc = "rb_thrown"
    /\ pc' = "rejected"
    /\ UNCHANGED <<argv, finalFiles, tools, options, files, disk, idx, processed, cur, calls, out,
                   exitCode, det,
                   envVars, genVars, results, rc, px, lc>>

\* a loop whose catch reports the failure and drops the file
LoopCatchDropsFile ==
    /\ pc = "rb_thrown"
    /\ out' = FailureNotice(out, files[idx])
    /\ idx' = idx + 1
    /\ pc' = "loop"
    /\ UNCHANGED <<argv, finalFiles, tools, options, files, disk, processed, cur, calls,
                   exitCode, det, envVars, genVars, results, rc, px, lc>>

\* catch (err) { console.error(...); processedFiles.push(file) }
LoopCatch ==
    /\ pc = "rb_thrown"
    /\ out' = FailureNotice(out, files[idx])
    /\ processed' = Append(processed, files[idx])
    /\ idx' = idx + 1
    /\ pc' = "loop"
    /\ UNCHANGED <<argv, finalFiles, tools, options, files, disk, cur, calls, exitCode, det,
                   envVars, genVars, results, rc, px, lc>>

RECURSIVE EmitAll(_, _, _)
EmitAll(log, fs, k) ==
    IF k > Len(fs) THEN log ELSE EmitAll(Emit(log, "generated", fs[k]), fs, k + 1)

\* console.log(`Generated ${finalFiles.length} image(s):`); finalFiles.forEach(...)
Report ==
    /\ pc = "report"
    /\ out' = EmitAll(out, finalFiles, 1)
    /\ exitCode' = 0
    /\ pc' = "done"
    /\ UNCHANGED <<argv, finalFiles, tools, options, files, disk, idx, processed, cur, calls, det,
                   envVars, genVars, results, rc, px, lc>>

Next ==
    \/ \E k \in DOMAIN LoadPcs : LoadEnv(k)
    \/ ParseArgs
    \/ GenStart
    \/ GenLoadRef
    \/ GenCall
    \/ GenSave
    \/ GenLogCost
    \/ ChainCatch
    \/ ThenStart
    \/ LoopNext
    \/ RbDetect
    \/ RbFfmpeg
    \/ RbTrim
    \/ RbFinish
    \/ RbCatch
    \/ LoopPush
    \/ LoopCatch
    \/ Report

Spec == Init /\ [][Next]_vars

-----------------------------------------------------------------------------
(* detectKeyColor on its own, over every histogram output of up to         *)
(* MaxLines lines, the loop over the lines taken one iteration at a time   *)

HexTokens == {<<>>, ShortHex, NearGreen, Blue, RedOpaque}

\* a count of 0 stands for a line without a leading "<digits>:"; the
\* histogram of a 4x4 patch lists only colors that occur, so counts are >= 1
Lines == {HistLine(n, h) : n \in 0..MaxCount, h \in HexTokens}

RawOutputs == UNION {[1..n -> Lines] : n \in 0..MaxLines}

InitDetect ==
    /\ argv = <<>>
    /\ tools \in {[magick |-> t, ffmpeg |-> "ok"] : t \in ToolStates}
    /\ pc = "detect only"
    /\ options = DefaultOptions
    /\ files = <<>>
    /\ disk = <<>>
    /\ idx = 0
    /\ processed = <<>>
    /\ finalFiles = <<>>
    /\ cur = NoCall
    /\ calls = <<>>
    /\ out = <<>>
    /\ exitCode = -1
    /\ det = [pc |-> "call", raw |-> <<>>, i |-> 0, best |-> ScanStart,
              result |-> NoKey, err |-> NoError]
    /\ env0 = EnvWithKey
    /\ env = env0
    /\ envFiles = NoEnvFiles
    /\ gen = GenIdle
    /\ request = NoRequest
    /\ refsOnDisk = RefPaths
    /\ costLog = CostLog(TRUE, TRUE, "array", <<>>)
    /\ results = <<>>
    /\ rc = RcIdle
    /\ px = PxIdle
    /\ lc = LcIdle

\* const raw = await runMagick([...]); let bestCount = 0; let bestColor = "00FF00"
DetCall ==
    /\ det.pc = "call"
    /\ \E end \in ProcEnds(tools["magick"], TRUE) :
       \E raw \in IF end = "ok" THEN RawOutputs ELSE {<<>>} :
          LET r == runMagick(tools["magick"], end, raw)
          IN  IF r.ok
              THEN det' = [det EXCEPT !.pc = "scan", !.raw = r.stdout, !.i = 1,
                                      !.best = ScanStart]
              ELSE det' = [det EXCEPT !.pc = "thrown", !.err = r.err]
    /\ UNCHANGED <<argv, finalFiles, tools, pc, options, files, disk, idx, processed, cur, calls,
                   out, exitCode,
                   envVars, genVars, results, rc, px, lc>>

\* for (const line of raw.split("\n")) { ... }
DetScan ==
    /\ det.pc = "scan"
    /\ det.i <= Len(det.raw)
    /\ det' = [det EXCEPT !.best = ScanLine(det.raw[det.i], det.best), !.i = det.i + 1]
    /\ UNCHANGED <<argv, finalFiles, tools, pc, options, files, disk, idx, processed, cur, calls,
                   out, exitCode,
                   envVars, genVars, results, rc, px, lc>>

\* return bestColor
DetReturn ==
    /\ det.pc = "scan"
    /\ det.i > Len(det.raw)
    /\ det' = [det EXCEPT !.pc = "returned", !.result = det.best.color]
    /\ UNCHANGED <<argv, finalFiles, tools, pc, options, files, disk, idx, processed, cur, calls,
                   out, exitCode,
                   envVars, genVars, results, rc, px, lc>>

NextDetect ==
    \/ DetCall
    \/ DetScan
    \/ DetReturn

SpecDetect == InitDetect /\ [][NextDetect]_vars

-----------------------------------------------------------------------------
(* Where the API key comes from: the three loads, parseArgs and the first  *)
(* step of generateImage, over environments and .env files                 *)

EnvArgLists ==
    { <<"robot">>,
      <<"robot", "--api-key", "FLAGKEY">>,
      <<"robot", "--api-key", "">>,
      <<"robot", "--api-key">> }

\* what the process can be started with: a variable unset, empty or set
EnvStarts ==
    {[k \in EnvKeys |-> IF k = GEMINI_API_KEY THEN g ELSE o] :
        g \in {Undefined, "", "E"}, o \in {Undefined, "O"}}

\* a missing file, an empty one, and files of one or two lines: plain,
\* quoted, empty and empty-quoted values, a comment, a line without a key,
\* the same key twice, another key first
EnvFileChoices ==
    { MissingFile,
      File(<<>>),
      File(<<Assign(GEMINI_API_KEY, "A")>>),
      File(<<Assign(GEMINI_API_KEY, "")>>),
      File(<<Assign(GEMINI_API_KEY, "'B'")>>),
      File(<<CommentLine, Assign(GEMINI_API_KEY, "A")>>),
      File(<<Assign(GEMINI_API_KEY, "A"), Assign(GEMINI_API_KEY, "'B'")>>),
      File(<<Assign(GEMINI_API_KEY, "''"), Assign(GEMINI_API_KEY, "'B'")>>),
      File(<<Assign(OTHER_KEY, "A"), Assign(GEMINI_API_KEY, "'B'")>>),
      File(<<Assign("", "A"), Assign(OTHER_KEY, "'B'")>>) }

InitEnv ==
    /\ argv \in EnvArgLists
    /\ tools = [magick |-> "ok", ffmpeg |-> "ok"]
    /\ pc = LoadPcs[1]
    /\ options = DefaultOptions
    /\ files = <<>>
    /\ disk = <<>>
    /\ idx = 0
    /\ processed = <<>>
    /\ finalFiles = <<>>
    /\ cur = NoCall
    /\ calls = <<>>
    /\ out = <<>>
    /\ exitCode = -1
    /\ det = DetIdle
    /\ env0 \in EnvStarts
    /\ env = env0
    /\ envFiles \in [DOMAIN LoadPcs -> EnvFileChoices]
    /\ gen = GenIdle
    /\ request = NoRequest
    /\ refsOnDisk = RefPaths
    /\ costLog = CostLog(TRUE, TRUE, "array", <<>>)
    /\ results = <<>>
    /\ rc = RcIdle
    /\ px = PxIdle
    /\ lc = LcIdle

NextEnv ==
    \/ \E k \in DOMAIN LoadPcs : LoadEnv(k)
    \/ ParseArgs
    \/ GenStart

SpecEnv == InitEnv /\ [][NextEnv]_vars

-----------------------------------------------------------------------------
(* generateImage up to the report, over reference images that load or do   *)
(* not and over the states the cost log can be found in                    *)

GenArgLists ==
    { <<"robot">>,
      <<"robot", "-r", "a.png", "-r", "b.jpg">>,
      <<"robot", "-r", "b.jpg", "-r", "a.png">>,
      <<"robot", "-t", "-r", "a.png">>,
      <<"robot", "-r">> }

\* an entry an earlier run logged
OldEntry ==
    [model |-> DEFAULT_MODEL, size |-> "1K", output_file |-> Path(Cwd, <<"old">>, "png")]

CostLogs ==
    {CostLog(FALSE, w, "absent", <<>>) : w \in BOOLEAN}
    \cup {CostLog(TRUE, w, k, <<>>) : w \in BOOLEAN, k \in {"absent", "array", "garbage", "object"}}
    \cup {CostLog(TRUE, w, "array", <<OldEntry>>) : w \in BOOLEAN}

InitGen ==
    /\ argv \in GenArgLists
    /\ tools = [magick |-> "ok", ffmpeg |-> "ok"]
    /\ pc = LoadPcs[1]
    /\ options = DefaultOptions
    /\ files = <<>>
    /\ disk = <<>>
    /\ idx = 0
    /\ processed = <<>>
    /\ finalFiles = <<>>
    /\ cur = NoCall
    /\ calls = <<>>
    /\ out = <<>>
    /\ exitCode = -1
    /\ det = DetIdle
    /\ env0 = EnvWithKey
    /\ env = env0
    /\ envFiles = NoEnvFiles
    /\ gen = GenIdle
    /\ request = NoRequest
    /\ refsOnDisk \in SUBSET RefPaths
    /\ costLog \in CostLogs
    /\ results = <<>>
    /\ rc = RcIdle
    /\ px = PxIdle
    /\ lc = LcIdle

NextGen ==
    \/ \E k \in DOMAIN LoadPcs : LoadEnv(k)
    \/ ParseArgs
    \/ GenStart
    \/ GenLoadRef
    \/ GenCall
    \/ GenSave
    \/ GenLogCost
    \/ ChainCatch
    \/ ThenStart
    \/ Report

SpecGen == InitGen /\ [][NextGen]_vars

-----------------------------------------------------------------------------
(* parseArgs on its own, over every list of up to MaxOptArgs option tokens *)
(* after a prompt                                                          *)

OptTokens == {"-s", "-m", "512", "2K", "pro", "PRO", "NB-PRO", "flash", PRO_MODEL,
              "-o", "-d", "-r"}

OptLists == UNION {[1..n -> OptTokens] : n \in 0..MaxOptArgs}

InitArgs ==
    /\ argv \in {<<"robot">> \o opts : opts \in OptLists}
    /\ tools = [magick |-> "ok", ffmpeg |-> "ok"]
    /\ pc = "start"
    /\ options = DefaultOptions
    /\ files = <<>>
    /\ disk = <<>>
    /\ idx = 0
    /\ processed = <<>>
    /\ finalFiles = <<>>
    /\ cur = NoCall
    /\ calls = <<>>
    /\ out = <<>>
    /\ exitCode = -1
    /\ det = DetIdle
    /\ env0 = EnvWithKey
    /\ env = env0
    /\ envFiles = NoEnvFiles
    /\ gen = GenIdle
    /\ request = NoRequest
    /\ refsOnDisk = RefPaths
    /\ costLog = CostLog(TRUE, TRUE, "array", <<>>)
    /\ results = <<>>
    /\ rc = RcIdle
    /\ px = PxIdle
    /\ lc = LcIdle

NextArgs == ParseArgs

SpecArgs == InitArgs /\ [][NextArgs]_vars

-----------------------------------------------------------------------------
(* The despill formula on its own, applied twice to every pixel with       *)
(* channel levels 0..MaxChannel.  Channels are counted in half levels, so  *)
(* (r + b) / 2 is exact.                                                   *)

Pixel(r, g, b) == [r |-> r, g |-> g, b |-> b]

Pixels == {Pixel(2 * r, 2 * g, 2 * b) : r \in 0..MaxChannel, g \in 0..MaxChannel,
                                         b \in 0..MaxChannel}

\* a limiter that moves g halfway to the limit
DespillHalfway(p) ==
    IF p.g > (p.r + p.b) \div 2 THEN [p EXCEPT !.g = (p.g + (p.r + p.b) \div 2) \div 2] ELSE p

\* g > (r+b)/2 ? (r+b)/2 : g
Despill(p) == IF p.g > (p.r + p.b) \div 2 THEN [p EXCEPT !.g = (p.r + p.b) \div 2] ELSE p

InitDespill ==
    /\ argv = <<>>
    /\ tools = [magick |-> "ok", ffmpeg |-> "ok"]
    /\ pc = "despill only"
    /\ options = DefaultOptions
    /\ files = <<>>
    /\ disk = <<>>
    /\ idx = 0
    /\ processed = <<>>
    /\ finalFiles = <<>>
    /\ cur = NoCall
    /\ calls = <<>>
    /\ out = <<>>
    /\ exitCode = -1
    /\ det = DetIdle
    /\ env0 = EnvWithKey
    /\ env = env0
    /\ envFiles = NoEnvFiles
    /\ gen = GenIdle
    /\ request = NoRequest
    /\ refsOnDisk = RefPaths
    /\ costLog = CostLog(TRUE, TRUE, "array", <<>>)
    /\ results = <<>>
    /\ rc = RcIdle
    /\ \E p \in Pixels : px = [pc |-> "fresh", start |-> p, once |-> p, now |-> p]
    /\ lc = LcIdle

\* the first pass over the pixel
DespillFirst ==
    /\ px.pc = "fresh"
    /\ px' = [px EXCEPT !.pc = "once", !.once = Despill(px.now), !.now = Despill(px.now)]
    /\ UNCHANGED <<argv, tools, pc, options, files, disk, idx, processed, finalFiles, cur,
                   calls, out, exitCode, det, envVars, genVars, results, rc, lc>>

\* a second pass over the result of the first
DespillSecond ==
    /\ px.pc = "once"
    /\ px' = [px EXCEPT !.pc = "twice", !.now = Despill(px.now)]
    /\ UNCHANGED <<argv, tools, pc, options, files, disk, idx, processed, finalFiles, cur,
                   calls, out, exitCode, det, envVars, genVars, results, rc, lc>>

NextDespill ==
    \/ DespillFirst
    \/ DespillSecond

SpecDespill == InitDespill /\ [][NextDespill]_vars

-----------------------------------------------------------------------------
(* One runCommand call with its callbacks taken one at a time: the child   *)
(* writes its output in chunks and closes, or cannot be spawned, in which  *)
(* case both the error and the close callback are due, in either order     *)

\* `${cmd} failed (exit ${code}): ${stderr}`
CloseError(cmd, code) == [msg |-> <<cmd, "failed (exit", code, "):">>]

\* the exit code the close event carries after a failed spawn: the errno
SpawnCode(errno) == IF errno = "ENOENT" THEN "-2" ELSE "-13"

\* stdout.trim() on a sequence of pieces, "\n" and " " being white space
RECURSIVE TrimLeft(_)
TrimLeft(s) == IF s # <<>> /\ Head(s) \in {"\n", " "} THEN TrimLeft(Tail(s)) ELSE s

RECURSIVE TrimRight(_)
TrimRight(s) ==
    IF s # <<>> /\ s[Len(s)] \in {"\n", " "} THEN TrimRight(SubSeq(s, 1, Len(s) - 1)) ELSE s

Trim(s) == TrimRight(TrimLeft(s))

Pending == [state |-> "pending", value |-> <<>>]
Resolved(v) == [state |-> "resolved", value |-> v]
Rejected(err) == [state |-> "rejected", value |-> err.msg]

\* a promise that takes every call of resolve or reject
SettleLastWins(promise, outcome) == outcome

\* resolve(...) or reject(...) of new Promise((resolve, reject) => ...): only
\* the first call settles the promise
Settle(promise, outcome) == IF promise.state = "pending" THEN outcome ELSE promise

\* what the child prints before it closes
StdoutSamples == {<<>>, <<"16:", "\n">>, <<"\n", "16:", " ", "#00FF00", "\n">>}

ExitCodes == {"0", "1"}

InitRun ==
    /\ argv = <<>>
    /\ tools \in [{"magick", "ffmpeg"} -> ToolStates]
    /\ pc = "runCommand only"
    /\ options = DefaultOptions
    /\ files = <<>>
    /\ disk = <<>>
    /\ idx = 0
    /\ processed = <<>>
    /\ finalFiles = <<>>
    /\ cur = NoCall
    /\ calls = <<>>
    /\ out = <<>>
    /\ exitCode = -1
    /\ det = DetIdle
    /\ env0 = EnvWithKey
    /\ env = env0
    /\ envFiles = NoEnvFiles
    /\ gen = GenIdle
    /\ request = NoRequest
    /\ refsOnDisk = RefPaths
    /\ costLog = CostLog(TRUE, TRUE, "array", <<>>)
    /\ results = <<>>
    /\ \E cmd \in {"magick", "ffmpeg"} :
          rc = [pc |-> "new", cmd |-> cmd, spawned |-> FALSE, code |-> "", due |-> {},
                fired |-> <<>>, chunks |-> <<>>, stdout |-> <<>>, promise |-> Pending]
    /\ px = PxIdle
    /\ lc = LcIdle

\* const proc = spawn(cmd, args) and the four handlers registered
RunSpawn ==
    /\ rc.pc = "new"
    /\ IF tools[rc.cmd] = "ok"
       THEN \E code \in ExitCodes, printed \in StdoutSamples :
               rc' = [rc EXCEPT !.pc = "running", !.spawned = TRUE, !.code = code,
                                !.chunks = printed, !.due = {"close"}]
       ELSE rc' = [rc EXCEPT !.pc = "running", !.code = SpawnCode(tools[rc.cmd]),
                             !.due = {"error", "close"}]
    /\ UNCHANGED <<argv, tools, pc, options, files, disk, idx, processed, finalFiles, cur,
                   calls, out, exitCode, det, envVars, genVars, results, px, lc>>

\* proc.stdout.on("data", (data) => { stdout += data.toString() })
RunOnData ==
    /\ rc.pc = "running"
    /\ rc.chunks # <<>>
    /\ rc' = [rc EXCEPT !.stdout = Append(@, Head(rc.chunks)), !.chunks = Tail(@)]
    /\ UNCHANGED <<argv, tools, pc, options, files, disk, idx, processed, finalFiles, cur,
                   calls, out, exitCode, det, envVars, genVars, results, px, lc>>

\* proc.on("close", (code) => { if (code === 0) resolve(stdout.trim());
\* else reject(new Error(...)) }); close comes after the streams have ended
RunOnClose ==
    /\ rc.pc = "running"
    /\ "close" \in rc.due
    /\ rc.chunks = <<>>
    /\ rc' = [rc EXCEPT !.due = @ \ {"close"},
                        !.fired = Append(@, "close"),
                        !.promise = Settle(@, IF rc.code = "0"
                                              THEN Resolved(Trim(rc.stdout))
                                              ELSE Rejected(CloseError(rc.cmd, rc.code)))]
    /\ UNCHANGED <<argv, tools, pc, options, files, disk, idx, processed, finalFiles, cur,
                   calls, out, exitCode, det, envVars, genVars, results, px, lc>>

\* proc.on("error", (err) => { reject(new Error(`Failed to run ...`)) })
RunOnError ==
    /\ rc.pc = "running"
    /\ "error" \in rc.due
    /\ rc' = [rc EXCEPT !.due = @ \ {"error"},
                        !.fired = Append(@, "error"),
                        !.promise = Settle(@, Rejected(SpawnError(rc.cmd, tools[rc.cmd])))]
    /\ UNCHANGED <<argv, tools, pc, options, files, disk, idx, processed, finalFiles, cur,
                   calls, out, exitCode, det, envVars, genVars, results, px, lc>>

NextRun ==
    \/ RunSpawn
    \/ RunOnData
    \/ RunOnClose
    \/ RunOnError

SpecRun == InitRun /\ [][NextRun]_vars

-----------------------------------------------------------------------------
(* The save loop of generateImage on its own, over every response of up to *)
(* MaxParts parts, image or text                                           *)

PartLists ==
    UNION {[1..n -> {p \in ImagePart : p.ok} \cup {TextPart}] : n \in 0..MaxParts}

SaveOptions ==
    {[DefaultOptions EXCEPT !.prompt = "robot", !.output = o, !.outputDir = d] :
        o \in {"nano-gen", "logo"}, d \in {Cwd, "/"}}

InitSave ==
    /\ argv = <<"robot">>
    /\ tools = [magick |-> "ok", ffmpeg |-> "ok"]
    /\ pc = "gen_save"
    /\ options \in SaveOptions
    /\ files = <<>>
    /\ disk = <<>>
    /\ idx = 0
    /\ processed = <<>>
    /\ finalFiles = <<>>
    /\ cur = NoCall
    /\ calls = <<>>
    /\ out = <<>>
    /\ exitCode = -1
    /\ det = DetIdle
    /\ env0 = EnvWithKey
    /\ env = env0
    /\ envFiles = NoEnvFiles
    /\ \E parts \in PartLists :
          gen = [GenIdle EXCEPT !.apiKey = "E", !.ri = 1, !.response = parts]
    /\ request = [sent |-> TRUE, apiKey |-> "E", model |-> options.model,
                  size |-> options.size, parts |-> <<TextOf(options)>>]
    /\ refsOnDisk = RefPaths
    /\ costLog = CostLog(TRUE, TRUE, "array", <<>>)
    /\ results = <<>>
    /\ rc = RcIdle
    /\ px = PxIdle
    /\ lc = LcIdle

NextSave == GenSave

SpecSave == InitSave /\ [][NextSave]_vars

-----------------------------------------------------------------------------
(* Two CLI processes in logCost on the same cost log, one step of a        *)
(* process per await: the directory and existence checks, the read, and    *)
(* the push with the write                                                 *)

Procs == {"p1", "p2"}

\* the entry each process logs
EntryOf(p) ==
    [model |-> DEFAULT_MODEL, size |-> "1K", output_file |-> Path(Cwd, <<p>>, "png")]

InitCost ==
    /\ argv = <<"robot">>
    /\ tools = [magick |-> "ok", ffmpeg |-> "ok"]
    /\ pc = "logCost only"
    /\ options = DefaultOptions
    /\ files = <<>>
    /\ disk = <<>>
    /\ idx = 0
    /\ processed = <<>>
    /\ finalFiles = <<>>
    /\ cur = NoCall
    /\ calls = <<>>
    /\ out = <<>>
    /\ exitCode = -1
    /\ det = DetIdle
    /\ env0 = EnvWithKey
    /\ env = env0
    /\ envFiles = NoEnvFiles
    /\ gen = GenIdle
    /\ request = NoRequest
    /\ refsOnDisk = RefPaths
    /\ costLog \in CostLogs
    /\ results = <<>>
    /\ rc = RcIdle
    /\ px = PxIdle
    /\ lc = [pc |-> "run", before |-> costLog,
             procs |-> [p \in Procs |-> [pc |-> "start", entries |-> <<>>]]]

\* if (!existsSync(dir)) await mkdir(dir, { recursive: true });
\* let entries = []; if (existsSync(COST_LOG_PATH)) { ... }
LcCheck(p) ==
    /\ lc.pc = "run"
    /\ lc.procs[p].pc = "start"
    /\ IF ~costLog.dirExists /\ ~costLog.writable
       THEN /\ lc' = [lc EXCEPT !.procs[p].pc = "failed"]
            /\ costLog' = costLog
       ELSE /\ costLog' = [costLog EXCEPT !.dirExists = TRUE]
            /\ lc' = [lc EXCEPT !.procs[p].pc =
                                   IF costLog.kind = "absent" THEN "write" ELSE "read"]
    /\ UNCHANGED <<argv, tools, pc, options, files, disk, idx, processed, finalFiles, cur,
                   calls, out, exitCode, det, envVars, gen, request, refsOnDisk, results,
                   rc, px>>

\* try { const raw = await readFile(...); entries = JSON.parse(raw) } catch
\* { entries = [] }; entries.push(entry) throws on a value that is no array
LcRead(p) ==
    /\ lc.pc = "run"
    /\ lc.procs[p].pc = "read"
    /\ IF costLog.kind = "object"
       THEN lc' = [lc EXCEPT !.procs[p].pc = "failed"]
       ELSE lc' = [lc EXCEPT !.procs[p].pc = "write",
                             !.procs[p].entries =
                                 IF costLog.kind = "array" THEN costLog.entries ELSE <<>>]
    /\ UNCHANGED <<argv, tools, pc, options, files, disk, idx, processed, finalFiles, cur,
                   calls, out, exitCode, det, envVars, genVars, results, rc, px>>

\* entries.push(entry); await writeFile(COST_LOG_PATH, JSON.stringify(entries, null, 2))
LcWrite(p) ==
    /\ lc.pc = "run"
    /\ lc.procs[p].pc = "write"
    /\ IF ~costLog.writable
       THEN /\ lc' = [lc EXCEPT !.procs[p].pc = "failed"]
            /\ costLog' = costLog
       ELSE /\ costLog' = [costLog EXCEPT !.kind = "array",
                                          !.entries = PushEntry(lc.procs[p].entries,
                                                                EntryOf(p))]
            /\ lc' = [lc EXCEPT !.procs[p].pc = "done"]
    /\ UNCHANGED <<argv, tools, pc, options, files, disk, idx, processed, finalFiles, cur,
                   calls, out, exitCode, det, envVars, gen, request, refsOnDisk, results,
                   rc, px>>

NextCost ==
    \/ \E p \in Procs : LcCheck(p)
    \/ \E p \in Procs : LcRead(p)
    \/ \E p \in Procs : LcWrite(p)

SpecCost == InitCost /\ [][NextCost]_vars

-----------------------------------------------------------------------------
(* Properties *)

\* the file at p went through colorkey+despill and trim
BgRemoved(p) == Exists(disk, p) /\ disk[Abs(p)].stage = "trimmed" /\ disk[Abs(p)].ok

Printed(kind, what) == \E j \in DOMAIN out : out[j] = [kind |-> kind, what |-> what]

\* parseArgs has returned
Parsed == pc \notin {"load_cwd", "load_repo", "load_home", "start"}

InCall == pc \in {"rb_detect", "rb_ffmpeg", "rb_trim", "rb_finish", "rb_catch",
                  "rb_returned", "rb_thrown"}

\* C1: in transparent mode, for every processed file whose input exists and
\* decodes, a background-removed file is produced even when a step of
\* removeBackground failed (the failed run being redone by a fallback).
C1_FallbackProducesOutput ==
    options.transparent =>
        \A i \in 1..Len(processed) :
            Readable(disk, files[i]) => BgRemoved(processed[i])

\* C2: a failure of removeBackground never leaves the transparent loop: no
\* rejection reaches the chain's catch once a call was made, the exit status
\* is not 1, and every file of the batch is passed to removeBackground.
C2_FailuresStayInLoop ==
    /\ pc = "rejected" => calls = <<>>
    /\ InCall \/ pc = "loop" => exitCode = -1
    /\ InCall => calls = SubSeq(files, 1, idx)
    /\ pc = "loop" => calls = SubSeq(files, 1, idx - 1)
    /\ pc \in {"report", "done"} /\ calls # <<>> => calls = files /\ exitCode # 1

\* C2 witness: a batch of two ended after the first file's removal failed
\* and the second file was still processed.
C2_Witness ==
    /\ pc = "done"
    /\ Len(files) = 2
    /\ Printed("failed to process", files[1])
    /\ calls = files
    /\ exitCode = 0

\* C3: when removeBackground has returned or thrown, its temporary file
\* <dir>/<name>_keyed.png does not exist.
C3_TempGoneOnExit ==
    pc \in {"rb_returned", "rb_thrown"} => ~Exists(disk, cur.tempKeyed)

\* C3 witness: the call threw at the trim step, after ffmpeg wrote the
\* temporary file.
C3_Witness ==
    /\ pc = "rb_thrown"
    /\ cur.fail.step = "trim"
    /\ cur.cmds[2].end = "ok"

\* C4: detectKeyColor never fails outward: once key detection has run the
\* call holds a concrete key color, the default one if the histogram command
\* failed, and the failure does not end the call.
C4_DetectNeverFailsOutward ==
    cur.active /\ Len(cur.cmds) >= 1 =>
        /\ cur.key # NoKey
        /\ cur.cmds[1].end # "ok" => cur.key = DefaultKey /\ cur.fail.step # "detect"

\* the lines that carry both a count and a hex color
WellFormed(raw) == {i \in 1..Len(raw) : raw[i].counted /\ Len(raw[i].hex) >= 6}

\* the first line with the greatest count among the well-formed ones
FirstGreatest(raw) ==
    CHOOSE i \in WellFormed(raw) :
        /\ \A j \in WellFormed(raw) : raw[j].count <= raw[i].count
        /\ \A j \in WellFormed(raw) : raw[j].count = raw[i].count => i <= j

\* C5: detectKeyColor returns the hex color of the first line with the
\* greatest count, 00FF00 when no line carries both a count and a hex
\* color, and always exactly six hex digits.
C5_MostFrequentColor ==
    det.pc = "returned" =>
        /\ det.result = IF WellFormed(det.raw) = {} THEN DefaultKey
                        ELSE SubSeq(det.raw[FirstGreatest(det.raw)].hex, 1, 6)
        /\ Len(det.result) = 6
        /\ \A k \in 1..Len(det.result) : det.result[k] \in HexDigits

\* C5 witness: two well-formed lines of different colors tie on the count
\* and the first one's color is returned.
C5_Witness ==
    /\ det.pc = "returned"
    /\ Len(det.raw) = 2
    /\ WellFormed(det.raw) = {1, 2}
    /\ det.raw[1].count = det.raw[2].count
    /\ SubSeq(det.raw[1].hex, 1, 6) # SubSeq(det.raw[2].hex, 1, 6)
    /\ det.result = SubSeq(det.raw[1].hex, 1, 6)

\* the hex digits of a color given on the command line
HexOfArg(tok) == IF tok = "#FF00FF" THEN <<"F", "F", "0", "0", "F", "F">> ELSE DefaultKey

\* the value the argument list gives an option, dflt when it does not
ValueOf(args, flag, dflt) ==
    IF \E i \in 1..(Len(args) - 1) : args[i] = flag
    THEN args[(CHOOSE i \in 1..(Len(args) - 1) : args[i] = flag) + 1]
    ELSE dflt

\* C6: the value after --chroma or --fuzz is consumed as that option's
\* value (never taken as the prompt) and the color keyed out is the one
\* --chroma gives, #00FF00 by default.
C6_ChromaAndFuzzHonoured ==
    /\ Parsed =>
          \A i \in 1..(Len(argv) - 1) :
              argv[i] \in {"--chroma", "--fuzz"} => options.prompt # argv[i + 1]
    /\ cur.active =>
          \A k \in 1..Len(cur.cmds) :
              cur.cmds[k].step = "ffmpeg" =>
                  cur.cmds[k].args.key = HexOfArg(ValueOf(argv, "--chroma", "#00FF00"))

HexVal(d) ==
    CASE d = "0" -> 0 [] d = "1" -> 1 [] d = "2" -> 2 [] d = "3" -> 3
      [] d = "4" -> 4 [] d = "5" -> 5 [] d = "6" -> 6 [] d = "7" -> 7
      [] d = "8" -> 8 [] d = "9" -> 9 [] d = "A" -> 10 [] d = "B" -> 11
      [] d = "C" -> 12 [] d = "D" -> 13 [] d = "E" -> 14 [] d = "F" -> 15

ChannelValue(key, c) == 16 * HexVal(key[2 * c - 1]) + HexVal(key[2 * c])

\* the channel of the largest component of a key color
DominantChannel(key) ==
    LET c == CHOOSE c \in 1..3 : \A o \in 1..3 : ChannelValue(key, o) <= ChannelValue(key, c)
    IN  <<"red", "green", "blue">>[c]

\* C7: the despill step clamps the dominant channel of the detected key
\* color.
C7_DespillFollowsKey ==
    cur.active =>
        \A k \in 1..Len(cur.cmds) :
            cur.cmds[k].step = "ffmpeg" =>
                cur.cmds[k].args.despill = DominantChannel(cur.cmds[k].args.key)

\* C8: in transparent mode every file of the final list that is not
\* background-removed was named by a failure notice printed before it.
C8_NoSilentDowngrade ==
    options.transparent =>
        \A j \in DOMAIN out :
            out[j].kind = "generated" /\ ~BgRemoved(out[j].what) =>
                \E k \in 1..(j - 1) :
                    out[k] = [kind |-> "failed to process", what |-> out[j].what]

\* C8 witness: a transparent run listed a file that is not background-removed.
C8_Witness ==
    /\ pc = "done"
    /\ options.transparent
    /\ \E j \in DOMAIN out : out[j].kind = "generated" /\ ~BgRemoved(out[j].what)

\* C9: removeBackground throws the 'FFmpeg is required' error exactly when
\* the ffmpeg executable could not be started, and otherwise rethrows the
\* original error unchanged.
C9_FfmpegMissingOnlyForFfmpeg ==
    pc = "rb_thrown" =>
        /\ cur.thrown = FFMPEG_REQUIRED <=> (cur.fail.cmd = "ffmpeg" /\ cur.fail.end = "spawn")
        /\ cur.thrown # FFMPEG_REQUIRED => cur.thrown = cur.err

\* C10: within one call the steps run at most once each in the order key
\* detection, ffmpeg, trim, each only after the previous one succeeded; the
\* colorkey key is the detected one and trim reads the file ffmpeg wrote.
C10_StepsOnceInOrder ==
    cur.active =>
        /\ Len(cur.cmds) <= 3
        /\ \A k \in 1..Len(cur.cmds) : cur.cmds[k].step = <<"detect", "ffmpeg", "trim">>[k]
        /\ \A k \in 2..Len(cur.cmds) : cur.cmds[k - 1].end = "ok"
        /\ Len(cur.cmds) >= 1 => cur.cmds[1].args.input = cur.input
        /\ Len(cur.cmds) >= 2 =>
              /\ cur.cmds[2].args.key = cur.key
              /\ cur.cmds[2].args.input = cur.input
        /\ Len(cur.cmds) >= 3 => cur.cmds[3].args.input = cur.cmds[2].args.output

\* C10 witness: a call ran all three steps with a detected key that is not
\* the default.
C10_Witness ==
    /\ pc = "rb_returned"
    /\ Len(cur.cmds) = 3
    /\ cur.key = Blue

\* the positions of the lines of the .env files that assign key, a file
\* that does not exist having none
Occurrences(key) ==
    UNION {{<<f, l>> : l \in {l \in DOMAIN envFiles[f].lines :
                                  /\ envFiles[f].exists
                                  /\ ~envFiles[f].lines[l].skipped
                                  /\ envFiles[f].lines[l].key = key}} :
           f \in DOMAIN envFiles}

\* the occurrences that give a non-empty value once the quotes are off
ValuedOccurrences(key) ==
    {p \in Occurrences(key) : StripQuotes(envFiles[p[1]].lines[p[2]].raw) # ""}

\* the first of a set of positions: first file in load order, first line in it
FirstOf(S) ==
    CHOOSE p \in S : \A q \in S : p[1] < q[1] \/ (p[1] = q[1] /\ p[2] <= q[2])

ValueAt(p) == StripQuotes(envFiles[p[1]].lines[p[2]].raw)

\* how many of the three loads are done
LoadsDone ==
    CASE pc = "load_cwd" -> 0
      [] pc = "load_repo" -> 1
      [] pc = "load_home" -> 2
      [] OTHER -> Len(LoadPcs)

\* the value file f gives GEMINI_API_KEY, "" when it gives none
FileKey(f) ==
    LET S == {p \in ValuedOccurrences(GEMINI_API_KEY) : p[1] = f}
    IN  IF S = {} THEN "" ELSE ValueAt(FirstOf(S))

\* the five sources of the key, in the documented order
KeySources ==
    <<ValueOf(argv, "--api-key", Undefined), env0[GEMINI_API_KEY],
      FileKey(1), FileKey(2), FileKey(3)>>

FirstAvailable ==
    LET S == {i \in DOMAIN KeySources : Truthy(KeySources[i])}
    IN  IF S = {} THEN Undefined
        ELSE KeySources[CHOOSE i \in S : \A j \in S : i <= j]

\* C11: the API key generateImage uses is the first available of the
\* --api-key flag, GEMINI_API_KEY of the process environment, the .env of
\* the current directory, the .env of the repository root and
\* ~/.nano-banana/.env; it stops asking for a key only when none has one.
C11_ApiKeyPriority ==
    /\ pc = "gen_refs" => Truthy(FirstAvailable) /\ gen.apiKey = FirstAvailable
    /\ Printed("key required", <<>>) => ~Truthy(FirstAvailable)

\* C11 witness: the key came from ~/.nano-banana/.env although the .env of
\* the current directory exists and names the key (with an empty value).
C11_Witness ==
    /\ pc = "gen_refs"
    /\ envFiles[1] = File(<<Assign(GEMINI_API_KEY, "")>>)
    /\ FileKey(2) = ""
    /\ gen.apiKey = "B"
    /\ FileKey(3) = "B"

\* C17 (as the code has it): loadEnvFile never changes a variable that has
\* a non-empty value; after each load a variable that started empty or
\* unset holds the value of its first occurrence with a non-empty value in
\* the files loaded so far, and is unchanged when there is none (a missing
\* file has no occurrences).
C17_FirstValuedOccurrenceWins ==
    \A key \in EnvKeys :
        LET S == {p \in ValuedOccurrences(key) : p[1] <= LoadsDone}
        IN  env[key] = IF Truthy(env0[key]) \/ S = {} THEN env0[key]
                       ELSE ValueAt(FirstOf(S))

\* C17 witness: all three loads are done, the first file does not exist and
\* the key, unset at the start, has the value of the first line of a later
\* file that names it twice.
C17_Witness ==
    /\ pc = "start"
    /\ ~envFiles[1].exists
    /\ env0[GEMINI_API_KEY] = Undefined
    /\ envFiles[2] = File(<<Assign(GEMINI_API_KEY, "A"), Assign(GEMINI_API_KEY, "'B'")>>)
    /\ env[GEMINI_API_KEY] = "A"

\* C17 (as stated): after the three loads each key that was not set holds
\* the value of its first occurrence in the files.
C17_FirstOccurrenceWins ==
    LoadsDone = Len(LoadPcs) =>
        \A key \in EnvKeys :
            ~Truthy(env0[key]) /\ Occurrences(key) # {} =>
                (IF Truthy(env[key]) THEN env[key] ELSE "") = ValueAt(FirstOf(Occurrences(key)))

\* if (part.inlineData)
IsImage(part) == part.image

\* generateImage has returned its list of saved files
Returned == pc \in {"then", "loop", "report", "done"} /\ gen.logged # "none"

\* the entries a log holds for logCost: those of a JSON array, none otherwise
PriorEntries(log) == IF log.kind = "array" THEN log.entries ELSE <<>>

\* logCost can complete on this log: the place can be written to and the
\* log is not valid JSON of another type than an array
CanLog(log) == log.writable /\ log.kind # "object"

C18_CostLogFailureNotFatal ==
    gen.logged = "failed" =>
        /\ pc \in {"then", "loop", "report", "done"}
        /\ exitCode # 1
        /\ files = gen.saved
        /\ Len(files) = Len(SelectSeq(gen.response, IsImage))
        /\ \A i \in DOMAIN files : Exists(disk, files[i])

\* C18 witness: the run ended with status 0 and two files after logCost
\* failed on a log that is valid JSON but no array.
C18_Witness ==
    /\ pc = "done"
    /\ exitCode = 0
    /\ gen.logged = "failed"
    /\ gen.costBefore.kind = "object"
    /\ gen.costBefore.writable
    /\ Len(finalFiles) = 2

\* the values of the -r flags of the argument list, in order
RECURSIVE RefsFrom(_, _)
RefsFrom(args, i) ==
    IF i > Len(args) THEN <<>>
    ELSE IF args[i] \in {"-r", "--ref"} THEN <<ArgAt(args, i + 1)>> \o RefsFrom(args, i + 2)
    ELSE RefsFrom(args, i + 1)

\* some reference image of the argument list cannot be loaded
SomeRefFails == \E i \in DOMAIN RefsFrom(argv, 1) : RefsFrom(argv, 1)[i] \notin refsOnDisk

\* C19: the request's parts are the reference images in the order of their
\* -r flags followed by exactly one text part, the prompt, last; when a
\* reference cannot be loaded no request is sent, no output file and no
\* cost entry is written, and the process exits with status 1.
C19_ImagesThenPrompt ==
    /\ request.sent =>
          LET refs == RefsFrom(argv, 1)
          IN  /\ Len(request.parts) = Len(refs) + 1
              /\ \A i \in DOMAIN refs : request.parts[i] = ImageOf(refs[i])
              /\ request.parts[Len(refs) + 1].kind = "text"
              /\ request.parts[Len(refs) + 1].prompt = "robot"
    /\ SomeRefFails =>
          /\ ~request.sent
          /\ disk = <<>>
          /\ pc \in {"gen_refs", "rejected", "done"} => costLog = gen.costBefore
          /\ pc \in {"load_cwd", "load_repo", "load_home", "start", "generate", "gen_refs",
                     "rejected", "done"}
          /\ pc = "done" => exitCode = 1

\* C19 witness: the run ended with status 1 because the second reference
\* did not load after the first one had.
C19_Witness ==
    /\ pc = "done"
    /\ exitCode = 1
    /\ gen.parts = <<ImageOf("a.png")>>
    /\ Printed("failed to load", "b.jpg")

\* the names that stand for the pro model: its aliases in any letter case
\* and its full id
ProNames == {"pro", "PRO", "NB-PRO", PRO_MODEL}

\* the argument lists that ask for size 512 and the pro model, size first
\* or model first
Asks512Pro ==
    {<<"robot", "-s", "512", "-m", n>> : n \in ProNames}
    \cup {<<"robot", "-m", n, "-s", "512">> : n \in ProNames}

\* C13: parseArgs never returns size 512 together with the pro model: a
\* request for both, in either order of -s and -m and under any alias or
\* letter case, comes back as the pro model with size 1K, and every size
\* returned is one of 512, 1K, 2K, 4K.
C13_No512WithPro ==
    pc = "generate" =>
        /\ ~(options.size = "512" /\ options.model = PRO_MODEL)
        /\ options.size \in VALID_SIZES
        /\ argv \in Asks512Pro => options.size = "1K" /\ options.model = PRO_MODEL

\* C13 witness: the model was named first, as NB-PRO, and size 512 after it.
C13_Witness ==
    /\ pc = "generate"
    /\ argv = <<"robot", "-m", "NB-PRO", "-s", "512">>
    /\ options.size = "1K"
    /\ options.model = PRO_MODEL

\* C14: on success removeBackground returns <dir>/<name>.png, <dir> being
\* the directory of the input path and <name> its base name without the
\* extension, wherever the input is: in a directory, in the current
\* directory given without a directory part, or directly under the root.
C14_ReturnsPngBesideInput ==
    pc = "rb_returned" =>
        Abs(cur.ret) = Abs(Path(cur.input.dir, cur.input.name, "png"))

\* C15: despill is idempotent: limiting the green channel to (r+b)/2 a
\* second time gives the pixel the first pass gave; a pass never touches
\* red or blue.
C15_DespillIdempotent ==
    /\ px.pc = "twice" => px.now = px.once
    /\ px.pc \in {"once", "twice"} => px.now.r = px.start.r /\ px.now.b = px.start.b

\* C15 witness: two passes over a pixel whose green the first pass lowered.
C15_Witness ==
    /\ px.pc = "twice"
    /\ px.once.g < px.start.g

\* the entry the final list owes the i-th saved file
EntryFor(i) == IF results[i].ok THEN results[i].path ELSE files[i]

\* C16: in transparent mode the list of processed files grows by one entry
\* per saved file, in order: entry i is the path removeBackground returned
\* for file i when it succeeded and file i itself when it threw, whatever
\* happened to the other files; the final list is that list, one entry per
\* saved file.
C16_OneEntryPerFileInOrder ==
    options.transparent =>
        /\ \A i \in DOMAIN processed : i <= Len(results) /\ processed[i] = EntryFor(i)
        /\ pc \in {"report", "done"} /\ files # <<>> =>
              /\ Len(finalFiles) = Len(files)
              /\ Len(results) = Len(files)
              /\ \A i \in DOMAIN files : finalFiles[i] = EntryFor(i)

\* C16 witness: of two files the first failed and the second succeeded; the
\* final list is the first file followed by the second call's result.
C16_Witness ==
    /\ pc = "done"
    /\ options.transparent
    /\ Len(files) = 2
    /\ Len(results) = 2
    /\ ~results[1].ok
    /\ results[2].ok
    /\ finalFiles = <<files[1], results[2].path>>
    /\ results[2].path # files[2]

\* every callback of the runCommand call has fired
RunOver == rc.pc = "running" /\ rc.due = {}

\* everything the child printed
Printout == rc.stdout \o rc.chunks

C23_OptionsDefined ==
    pc = "generate" =>
        /\ options.output # Undefined
        /\ options.outputDir # Undefined
        /\ options.model # Undefined
        /\ \A i \in DOMAIN options.referenceImages : options.referenceImages[i] # Undefined

\* the name of the k-th saved file (k from 0): <output>, then <output>_<k>
NameOf(k) == IF k = 0 THEN <<options.output>> ELSE <<options.output, IndexSuffix(k)>>

\* no two entries of a list of paths name the same file
Distinct(paths) ==
    \A i, j \in DOMAIN paths : i # j => Abs(paths[i]) # Abs(paths[j])

\* C25: the files one generateImage call saves are listed in response
\* order, the k-th image part (text parts not counted, k from 0) at
\* <output>.<ext> for k = 0 and <output>_<k>.<ext> for k > 0; their paths
\* are pairwise distinct, and so are the output paths and the temporary
\* paths removeBackground derives from them.
C25_SavedPathsDistinct ==
    pc = "gen_cost" =>
        LET images == SelectSeq(gen.response, IsImage)
        IN  /\ Len(gen.saved) = Len(images)
            /\ \A k \in DOMAIN images :
                  /\ gen.saved[k] = Join(options.outputDir, NameOf(k - 1), images[k].ext)
                  /\ Exists(disk, gen.saved[k])
            /\ Distinct(gen.saved)
            /\ Distinct([k \in DOMAIN gen.saved |-> RbOutputPath(gen.saved[k])])
            /\ Distinct([k \in DOMAIN gen.saved |-> RbTempKeyed(gen.saved[k])])

\* C25 witness: a text part between two image parts of the same type; the
\* second image is saved under index 1.
C25_Witness ==
    /\ pc = "gen_cost"
    /\ Len(gen.response) = 3
    /\ gen.response[1].image /\ ~gen.response[2].image /\ gen.response[3].image
    /\ gen.response[1].ext = gen.response[3].ext
    /\ Len(gen.saved) = 2
    /\ gen.saved[2].name = <<options.output, "_1">>

\* C22: when two processes run logCost on the same log, then however
\* their reads and writes interleave, once both have written the log holds
\* the entries it held before followed by both new entries.
C22_ConcurrentLogsKeepAll ==
    lc.pc = "run" /\ (\A p \in Procs : lc.procs[p].pc = "done") =>
        LET prior == PriorEntries(lc.before)
        IN  /\ Len(costLog.entries) = Len(prior) + Cardinality(Procs)
            /\ SubSeq(costLog.entries, 1, Len(prior)) = prior
            /\ \A p \in Procs : \E i \in DOMAIN costLog.entries :
                  costLog.entries[i] = EntryOf(p)

\* C21: removeBackground writes and deletes only the temporary file it
\* created and its own output path: every other file that was there before
\* the call, one at <dir>/<name>_keyed.png included, is there with the same
\* content when the call has returned or thrown.
C21_OnlyOwnFilesTouched ==
    pc \in {"rb_returned", "rb_thrown"} =>
        \A q \in DOMAIN cur.before :
            q # Abs(cur.outputPath) => q \in DOMAIN disk /\ disk[q] = cur.before[q]

\* C24: when removeBackground has thrown, the input file exists with the
\* content it had before the call, also when the input is a .png file.
C24_InputIntactOnThrow ==
    pc = "rb_thrown" =>
        /\ Exists(disk, cur.input)
        /\ disk[Abs(cur.input)] = cur.before[Abs(cur.input)]

====
